---- MODULE Spec2Model ----
(***************************************************************************)
(* AV Coins backend (src/main.py): login-or-create by email, one bearer    *)
(* token per user, and a clamped coin balance.  All state lives in the     *)
(* document store (collections "usercoin" and "session"); every request is *)
(* a separate process whose steps are its store round-trips.               *)
(*                                                                         *)
(* Strings are sequences of one-character strings.  An optional value      *)
(* (Python None / a find_one miss) is a sequence of length 0 or 1.         *)
(***************************************************************************)
EXTENDS Integers, Sequences, FiniteSets, TLC

\* ---------------------------------------------------------------- bounds
\* Number of store writes (inserts and updates) a behaviour may perform.
MaxClock == 3
\* Hex digits of a printed ObjectId (24 in the real store).
OidHexLen == 2
\* Random bytes of a token: secrets.token_hex(24) in the source.
TokenBytes == 1

\* ------------------------------------------------------- program constants
\* add_coins rejects abs(amount) > 10000.
MaxAmount == 10000

\* ------------------------------------------------------------ option type
None == << >>
Some(x) == << x >>
IsSome(o) == o # << >>
Val(o) == o[1]

\* ---------------------------------------------------------------- strings
Min(S) == CHOOSE x \in S : \A y \in S : x <= y

HexChars == << "0", "1", "2", "3", "4", "5", "6", "7",
               "8", "9", "a", "b", "c", "d", "e", "f" >>

HexSet == { HexChars[i] : i \in 1..16 }

HexVal(c) == (CHOOSE i \in 1..16 : HexChars[i] = c) - 1

\* n printed as exactly w lower-case hex digits (most significant first).
RECURSIVE HexOf(_, _)
HexOf(n, w) == IF w = 0 THEN << >>
               ELSE Append(HexOf(n \div 16, w - 1), HexChars[(n % 16) + 1])

RECURSIVE HexParse(_)
HexParse(s) == IF s = << >> THEN 0
               ELSE 16 * HexParse(SubSeq(s, 1, Len(s) - 1)) + HexVal(s[Len(s)])

\* str(user["_id"]): the hex form of the ObjectId.
StrOid(oid) == HexOf(oid, OidHexLen)

\* ObjectId(user_id) inside try/except: None for a malformed string.
ParseOid(s) == IF Len(s) = OidHexLen /\ \A i \in 1..Len(s) : s[i] \in HexSet
               THEN Some(HexParse(s))
               ELSE None

\* secrets.token_hex(n): 2*n hex digits; k is the draw of the random source.
TokenHex(k) == HexOf(k, 2 * TokenBytes)

Bearer == << "B", "e", "a", "r", "e", "r", " " >>

Whitespace == { " ", "\t" }

IsPrefix(p, s) == Len(p) <= Len(s) /\ SubSeq(s, 1, Len(p)) = p

\* str.replace(old, ""): every non-overlapping occurrence, left to right.
RECURSIVE Remove(_, _)
Remove(s, old) == IF s = << >> THEN << >>
                  ELSE IF IsPrefix(old, s)
                       THEN Remove(SubSeq(s, Len(old) + 1, Len(s)), old)
                       ELSE << Head(s) >> \o Remove(Tail(s), old)

\* str.strip(): leading and trailing whitespace removed.
Strip(s) == LET keep == { i \in 1..Len(s) : s[i] \notin Whitespace }
            IN IF keep = {} THEN << >>
               ELSE SubSeq(s, Min(keep), CHOOSE i \in keep : \A j \in keep : j <= i)

\* authorization.replace("Bearer ", "").strip()
CredToken(auth) == Strip(Remove(auth, Bearer))

\* email.split("@")[0]
LocalPart(email) == LET at == { i \in 1..Len(email) : email[i] = "@" }
                    IN IF at = {} THEN email ELSE SubSeq(email, 1, Min(at) - 1)

\* Python truthiness of an Optional[str]: None and "" are falsy.
Truthy(o) == IsSome(o) /\ Val(o) # << >>

\* ------------------------------------------------------------------ store
\* find_one(filter): the first document in insertion order among those the
\* filter matches; idx is the set of their positions.
FindOne(coll, idx) == IF idx = {} THEN None ELSE Some(coll[Min(idx)])

\* get_documents/create_document come from the repository's database module:
\* insert_one of the given fields plus the store-assigned _id and timestamps.
create_document(coll, doc, oid, now) ==
    Append(coll, [id |-> oid, email |-> doc.email, name |-> doc.name,
                  coins |-> doc.coins, updated_at |-> now])

\* Mutant: the session is keyed by the user's email instead of its id.
create_session_ByEmail(coll, tok, user) ==
    Append(coll, [token |-> tok, user_id |-> user.email, user_email |-> user.email])

\* create_document("session", {...}).
create_session(coll, tok, user) ==
    Append(coll, [token |-> tok, user_id |-> StrOid(user.id), user_email |-> user.email])

\* Mutant: the record is replaced instead of patched, coins back at 0.
UpdateName_Reset(coll, oid, nm, now) ==
    [ i \in DOMAIN coll |->
        IF coll[i].id = oid
        THEN [coll[i] EXCEPT !.name = nm, !.coins = 0, !.updated_at = now]
        ELSE coll[i] ]

\* update_one({"_id": oid}, {"$set": {"name": ..., "updated_at": ...}})
UpdateName(coll, oid, nm, now) ==
    [ i \in DOMAIN coll |->
        IF coll[i].id = oid THEN [coll[i] EXCEPT !.name = nm, !.updated_at = now]
        ELSE coll[i] ]

\* Mutant: $inc instead of $set.
UpdateCoins_Inc(coll, oid, total, now) ==
    [ i \in DOMAIN coll |->
        IF coll[i].id = oid
        THEN [coll[i] EXCEPT !.coins = coll[i].coins + total, !.updated_at = now]
        ELSE coll[i] ]

\* update_one({"_id": oid}, {"$set": {"coins": ..., "updated_at": ...}})
UpdateCoins(coll, oid, total, now) ==
    [ i \in DOMAIN coll |->
        IF coll[i].id = oid THEN [coll[i] EXCEPT !.coins = total, !.updated_at = now]
        ELSE coll[i] ]

\* ------------------------------------------------------------------ inputs
Procs == { 1, 2 }

Emails == { << "a", "@", "x" >>, << "b", "@", "x" >> }

\* payload.name: absent, empty, or a name that is no local part of an email.
PayloadNames == { None, Some(<< >>), Some(<< "A" >>) }

Amounts == { 0, 30, -50, 200, MaxAmount, -MaxAmount, MaxAmount + 1, -(MaxAmount + 1), 20000 }

AuthOps == { "me", "add" }

\* Presentations of a token in the Authorization header: bare, with the
\* scheme, with surrounding whitespace, and with the scheme word inside it.
CredForms(t) == { t, Bearer \o t, << " " >> \o t \o << " " >>,
                  << " " >> \o Bearer \o t \o << "\t" >>,
                  SubSeq(t, 1, 1) \o Bearer \o SubSeq(t, 2, Len(t)) }

VARIABLES
    dbOk,       \* db is not None
    users,      \* collection "usercoin", in insertion order
    sessions,   \* collection "session", in insertion order
    clock,      \* datetime.now(): advances with every write or failed write
    horizon,    \* the instant at which the observed window ends
    nextTok,    \* draws taken from the random source so far, plus one
    pc,         \* per request slot: the next store round-trip
    req,        \* per request slot: operation and payload
    userL,      \* local `user`
    sessL,      \* local `sess["user_id"]`
    tokL,       \* local `token`
    resp,       \* the response on the wire, if any
    conc,       \* history: a competing request overlapped the running one
    solo,       \* history: the request answered by resp was never overlapped so
    issued      \* history: tokens returned by completed logins

vars == << dbOk, users, sessions, clock, horizon, nextTok, pc, req, userL, sessL, tokL,
           resp, conc, solo, issued >>

store == << users, sessions >>

NoReq == [op |-> "none", email |-> << >>, name |-> None, amt |-> 0]

NoResp == [op |-> "none", status |-> 0, detail |-> "", token |-> << >>, email |-> << >>, name |-> << >>, coins |-> -1]

\* HTTPException(status_code, detail)
Error(code, detail) == [NoResp EXCEPT !.status = code, !.detail = detail]

\* LoginResponse(token, email, name, coins)
LoginResponse(tok, user) ==
    [op |-> "none", status |-> 200, detail |-> "", token |-> tok, email |-> user.email, name |-> user.name,
     coins |-> user.coins]

\* {"coins": n}
CoinsResponse(n) == [NoResp EXCEPT !.status = 200, !.coins = n]

\* Candidate tokens a client may present: all drawn so far and one never drawn.
KnownTokens == { TokenHex(k) : k \in 1..nextTok }

Credentials == { None, Some(<< >>), Some(<< " " >>) }
               \cup UNION { { Some(c) : c \in CredForms(t) } : t \in KnownTokens }

Running(q) == pc[q] # "idle"

Init ==
    /\ dbOk \in BOOLEAN
    /\ users = << >>
    /\ sessions = << >>
    /\ clock = 0
    /\ horizon = MaxClock
    /\ nextTok = 1
    /\ pc = [p \in Procs |-> "idle"]
    /\ req = [p \in Procs |-> NoReq]
    /\ userL = [p \in Procs |-> None]
    /\ sessL = [p \in Procs |-> None]
    /\ tokL = [p \in Procs |-> << >>]
    /\ resp = NoResp
    /\ conc = [p \in Procs |-> FALSE]
    /\ solo = FALSE
    /\ issued = {}

\* ----------------------------------------------------------------- helpers
_get_user_by_email(email) ==
    FindOne(users, { i \in DOMAIN users : users[i].email = email })

\* Mutant: the lookup never finds the session, so every login mints a token.
FindSessionByUser_Rotate(user_id) == None

\* Mutant: of several sessions of a user the lookup returns the newest.
FindSessionByUser_Last(user_id) ==
    LET idx == { i \in DOMAIN sessions : sessions[i].user_id = user_id }
    IN IF idx = {} THEN None
       ELSE Some(sessions[CHOOSE i \in idx : \A j \in idx : j <= i])

\* db["session"].find_one({"user_id": ...}) (56)
FindSessionByUser(user_id) ==
    FindOne(sessions, { i \in DOMAIN sessions : sessions[i].user_id = user_id })

\* db["session"].find_one({"token": token}) (68)
FindSessionByToken(token) ==
    FindOne(sessions, { i \in DOMAIN sessions : sessions[i].token = token })

\* Mutant: the _id filter is lost and the newest user is returned.
get_user_by_id_Newest(user_id) ==
    IF users = << >> THEN None ELSE Some(users[Len(users)])

\* Mutant: an unusable user_id falls back to the first user of the store.
get_user_by_id_Fallback(user_id) ==
    LET oid == ParseOid(user_id)
        hit == IF IsSome(oid)
               THEN FindOne(users, { i \in DOMAIN users : users[i].id = Val(oid) })
               ELSE None
    IN IF IsSome(hit) THEN hit ELSE FindOne(users, DOMAIN users)

_get_user_by_id(user_id) ==
    LET oid == ParseOid(user_id)
    IN IF ~IsSome(oid) THEN None
       ELSE FindOne(users, { i \in DOMAIN users : users[i].id = Val(oid) })

\* line 132: payload.name or payload.email.split("@")[0]
DefaultName(nm, email) == IF Truthy(nm) THEN Val(nm) ELSE LocalPart(email)

\* Mutant: the empty string counts as a supplied name.
NameDiffers_Verbatim(nm, user) == IsSome(nm) /\ Val(nm) # user.name

\* Mutant: the name is never updated.
NameDiffers_Never(nm, user) == FALSE

\* line 136: payload.name and payload.name != user.get("name")
NameDiffers(nm, user) == Truthy(nm) /\ Val(nm) # user.name

\* Mutant: no floor at zero.
NewTotal_NoClamp(coins, amt) == coins + amt

\* lines 158-160: the clamped new total.
NewTotal(coins, amt) == IF coins + amt < 0 THEN 0 ELSE coins + amt

\* Mutant: the zero-amount short-circuit is missing.
IsNoop_Never(amt) == FALSE

\* line 154
IsNoop(amt) == amt = 0

\* Mutant: the bound is exclusive.
TooLarge_OffByOne(amt) == (IF amt < 0 THEN -amt ELSE amt) >= MaxAmount

\* line 156
TooLarge(amt) == (IF amt < 0 THEN -amt ELSE amt) > MaxAmount

\* The request of kind op in slot p ends with response r.
Finish(p, op, r) ==
    /\ pc' = [pc EXCEPT ![p] = "idle"]
    /\ resp' = [r EXCEPT !.op = op]
    /\ solo' = ~conc[p]
    /\ req' = [req EXCEPT ![p] = NoReq]
    /\ userL' = [userL EXCEPT ![p] = None]
    /\ sessL' = [sessL EXCEPT ![p] = None]
    /\ tokL' = [tokL EXCEPT ![p] = << >>]

\* A step that sends no response.
Quiet == resp' = NoResp /\ solo' = FALSE

\* Requests compete when they are logins with the same email, or both
\* add_coins calls.
Competes(q, op, email) ==
    /\ Running(q)
    /\ req[q].op = op
    /\ op = "login" => req[q].email = email
    /\ op # "me"

\* A request arrives in slot p: it and every competing running request are
\* marked as overlapped.  A request that ends on arrival keeps no mark.
Arrive(p, op, email) ==
    conc' = [q \in Procs |->
               IF q = p THEN pc'[p] # "idle" /\ \E r \in Procs \ {p} : Competes(r, op, email)
               ELSE conc[q] \/ Competes(q, op, email)]

\* History kept when slot p's request ends.
Close(p) == conc' = [conc EXCEPT ![p] = FALSE]

\* A successful login is entered in `issued`; solo: no competing login
\* overlapped it.
Issue(p, user, tok) ==
    issued' = issued \cup { [email |-> req[p].email, uid |-> user.id, token |-> tok,
                             solo |-> solo'] }

\* Where login goes after it holds a user (line 136).
AfterUser(nm, user) == IF NameDiffers(nm, user) THEN "l_update" ELSE "l_sess"

\* --------------------------------------------------------- login (125-142)
\* Arrival, the db check (127) and the first lookup by email (130).
StartLogin(p, e, nm) ==
    /\ pc[p] = "idle"
    /\ resp = NoResp
    /\ IF ~dbOk
       THEN Finish(p, "login", Error(500, "Database not configured"))
       ELSE LET u == _get_user_by_email(e)
            IN /\ pc' = [pc EXCEPT ![p] = IF IsSome(u) THEN AfterUser(nm, Val(u))
                                           ELSE "l_insert"]
               /\ req' = [req EXCEPT ![p] = [op |-> "login", email |-> e,
                                             name |-> nm, amt |-> 0]]
               /\ userL' = [userL EXCEPT ![p] = u]
               /\ UNCHANGED << sessL, tokL >>
               /\ Quiet
    /\ Arrive(p, "login", e)
    /\ UNCHANGED << dbOk, horizon, users, sessions, clock, nextTok, issued >>

\* create_document("usercoin", {email, name, coins: 0}) (132-133).
LoginInsertUser(p) ==
    /\ pc[p] = "l_insert"
    /\ resp = NoResp
    /\ clock < horizon
    /\ clock' = clock + 1
    /\ users' = create_document(users,
                    [email |-> req[p].email,
                     name |-> DefaultName(req[p].name, req[p].email),
                     coins |-> 0],
                    Len(users) + 1, clock')
    /\ pc' = [pc EXCEPT ![p] = "l_refetch1"]
    /\ Quiet
    /\ UNCHANGED << dbOk, horizon, sessions, nextTok, req, userL, sessL, tokL, conc, issued >>

\* The re-read after the insert (134), then the name test (136).
LoginRefetch1(p) ==
    /\ pc[p] = "l_refetch1"
    /\ resp = NoResp
    /\ LET u == _get_user_by_email(req[p].email)
       IN /\ userL' = [userL EXCEPT ![p] = u]
          /\ pc' = [pc EXCEPT ![p] = AfterUser(req[p].name, Val(u))]
    /\ Quiet
    /\ UNCHANGED << dbOk, horizon, users, sessions, clock, nextTok, req, sessL, tokL, conc,
                    issued >>

\* update_one(name, updated_at) (137).
LoginUpdateName(p) ==
    /\ pc[p] = "l_update"
    /\ resp = NoResp
    /\ clock < horizon
    /\ clock' = clock + 1
    /\ users' = UpdateName(users, Val(userL[p]).id, Val(req[p].name), clock')
    /\ pc' = [pc EXCEPT ![p] = "l_refetch2"]
    /\ Quiet
    /\ UNCHANGED << dbOk, horizon, sessions, nextTok, req, userL, sessL, tokL, conc, issued >>

\* The re-read after the update (138).
LoginRefetch2(p) ==
    /\ pc[p] = "l_refetch2"
    /\ resp = NoResp
    /\ userL' = [userL EXCEPT ![p] = _get_user_by_email(req[p].email)]
    /\ pc' = [pc EXCEPT ![p] = "l_sess"]
    /\ Quiet
    /\ UNCHANGED << dbOk, horizon, users, sessions, clock, nextTok, req, sessL, tokL, conc,
                    issued >>

\* _create_or_get_session: the lookup by user_id (56-59); a hit ends the login
\* with the stored token, a miss draws a fresh token.
LoginFindSession(p) ==
    /\ pc[p] = "l_sess"
    /\ resp = NoResp
    /\ LET user == Val(userL[p])
           existing == FindSessionByUser(StrOid(user.id))
       IN IF IsSome(existing)
          THEN /\ Finish(p, "login", LoginResponse(Val(existing).token, user))
               /\ Issue(p, user, Val(existing).token)
               /\ Close(p)
               /\ UNCHANGED nextTok
          ELSE /\ tokL' = [tokL EXCEPT ![p] = TokenHex(nextTok)]
               /\ nextTok' = nextTok + 1
               /\ pc' = [pc EXCEPT ![p] = "l_sessins"]
               /\ Quiet
               /\ UNCHANGED << req, userL, sessL, conc, issued >>
    /\ UNCHANGED << dbOk, horizon, users, sessions, clock >>

\* create_document("session", ...) and the response (60-61, 142).
LoginInsertSession(p) ==
    /\ pc[p] = "l_sessins"
    /\ resp = NoResp
    /\ clock < horizon
    /\ clock' = clock + 1
    /\ sessions' = create_session(sessions, tokL[p], Val(userL[p]))
    /\ Finish(p, "login", LoginResponse(tokL[p], Val(userL[p])))
    /\ Issue(p, Val(userL[p]), tokL[p])
    /\ Close(p)
    /\ UNCHANGED << dbOk, horizon, users, nextTok >>

\* Mutant: the failed login removes the user it holds before it aborts.
LoginInsertSessionFails_Rollback(p) ==
    /\ pc[p] = "l_sessins"
    /\ resp = NoResp
    /\ clock < horizon
    /\ clock' = clock + 1
    /\ LET k == CHOOSE i \in DOMAIN users : users[i].id = Val(userL[p]).id
       IN users' = [i \in 1..(Len(users) - 1) |->
                       IF i < k THEN users[i] ELSE users[i + 1]]
    /\ Finish(p, "login", Error(500, "Internal Server Error"))
    /\ Close(p)
    /\ UNCHANGED << dbOk, horizon, sessions, nextTok, issued >>

\* create_document("session", ...) raises (60): the store failed.  Nothing
\* in _create_or_get_session or login catches it, so the request ends with an
\* internal error and nothing is inserted; the attempt takes its time.
LoginInsertSessionFails(p) ==
    /\ pc[p] = "l_sessins"
    /\ resp = NoResp
    /\ clock < horizon
    /\ clock' = clock + 1
    /\ Finish(p, "login", Error(500, "Internal Server Error"))
    /\ Close(p)
    /\ UNCHANGED << dbOk, horizon, users, sessions, nextTok, issued >>

\* ------------------------------------------- get_current_user (64-74)
\* Arrival, the header test (65-66), the token (67) and the session lookup
\* (68-70).  With db None the subscript raises: an internal error.
StartAuth(p, op, cred) ==
    /\ pc[p] = "idle"
    /\ resp = NoResp
    /\ IF ~Truthy(cred)
       THEN Finish(p, op, Error(401, "Missing Authorization header"))
       ELSE IF ~dbOk
       THEN Finish(p, op, Error(500, "Internal Server Error"))
       ELSE LET token == CredToken(Val(cred))
                sess == FindSessionByToken(token)
            IN IF ~IsSome(sess)
               THEN Finish(p, op, Error(401, "Invalid token"))
               ELSE /\ pc' = [pc EXCEPT ![p] = "a_user"]
                    /\ req' = [req EXCEPT ![p] = [op |-> op, email |-> << >>,
                                                  name |-> None, amt |-> 0]]
                    /\ sessL' = [sessL EXCEPT ![p] = Some(Val(sess).user_id)]
                    /\ tokL' = [tokL EXCEPT ![p] = token]
                    /\ UNCHANGED userL
                    /\ Quiet
    /\ Arrive(p, op, << >>)
    /\ UNCHANGED << dbOk, horizon, users, sessions, clock, nextTok, issued >>

\* Mutant: whoami stamps the user it answers for.
AuthFindUser_Touch(p, amt) ==
    /\ pc[p] = "a_user"
    /\ resp = NoResp
    /\ LET u == _get_user_by_id(Val(sessL[p]))
       IN IF ~IsSome(u)
          THEN /\ Finish(p, req[p].op, Error(401, "User not found for token")) /\ Close(p)
               /\ UNCHANGED users
          ELSE IF req[p].op = "me"
          THEN /\ Finish(p, "me", LoginResponse(tokL[p], Val(u))) /\ Close(p)
               /\ users' = UpdateCoins(users, Val(u).id, Val(u).coins, clock + 1)
          ELSE IF IsNoop(amt)
          THEN /\ Finish(p, "add", CoinsResponse(Val(u).coins)) /\ Close(p)
               /\ UNCHANGED users
          ELSE IF TooLarge(amt)
          THEN /\ Finish(p, "add", Error(400, "Amount too large")) /\ Close(p)
               /\ UNCHANGED users
          ELSE /\ userL' = [userL EXCEPT ![p] = u]
               /\ pc' = [pc EXCEPT ![p] = "c_write"]
               /\ req' = [req EXCEPT ![p].amt = amt]
               /\ Quiet
               /\ UNCHANGED << sessL, tokL, conc, users >>
    /\ UNCHANGED << dbOk, horizon, sessions, clock, nextTok, issued >>

\* _get_user_by_id (71-73), then the handler up to its next round-trip:
\* me (147-148) answers; add_coins (153-157) reads payload.amount, answers
\* for 0 and for a too large amount, and otherwise goes on to the write.
AuthFindUser(p, amt) ==
    /\ pc[p] = "a_user"
    /\ resp = NoResp
    /\ LET u == _get_user_by_id(Val(sessL[p]))
       IN IF ~IsSome(u)
          THEN Finish(p, req[p].op, Error(401, "User not found for token")) /\ Close(p)
          ELSE IF req[p].op = "me"
          THEN Finish(p, "me", LoginResponse(tokL[p], Val(u))) /\ Close(p)
          ELSE IF IsNoop(amt)
          THEN Finish(p, "add", CoinsResponse(Val(u).coins)) /\ Close(p)
          ELSE IF TooLarge(amt)
          THEN Finish(p, "add", Error(400, "Amount too large")) /\ Close(p)
          ELSE /\ userL' = [userL EXCEPT ![p] = u]
               /\ pc' = [pc EXCEPT ![p] = "c_write"]
               /\ req' = [req EXCEPT ![p].amt = amt]
               /\ Quiet
               /\ UNCHANGED << sessL, tokL, conc >>
    /\ UNCHANGED << dbOk, horizon, users, sessions, clock, nextTok, issued >>

\* Mutant: the write re-reads the stored balance (an isolated
\* read-modify-write).
AddWrite_Fresh(p) ==
    /\ pc[p] = "c_write"
    /\ resp = NoResp
    /\ clock < horizon
    /\ clock' = clock + 1
    /\ LET user == Val(_get_user_by_id(StrOid(Val(userL[p]).id)))
           new_total == NewTotal(user.coins, req[p].amt)
       IN /\ users' = UpdateCoins(users, user.id, new_total, clock')
          /\ Finish(p, "add", CoinsResponse(new_total))
    /\ Close(p)
    /\ UNCHANGED << dbOk, horizon, sessions, nextTok, issued >>

\* add_coins: update_one(coins, updated_at) and the response (158-162).
AddWrite(p) ==
    /\ pc[p] = "c_write"
    /\ resp = NoResp
    /\ clock < horizon
    /\ clock' = clock + 1
    /\ LET user == Val(userL[p])
           new_total == NewTotal(user.coins, req[p].amt)
       IN /\ users' = UpdateCoins(users, user.id, new_total, clock')
          /\ Finish(p, "add", CoinsResponse(new_total))
    /\ Close(p)
    /\ UNCHANGED << dbOk, horizon, sessions, nextTok, issued >>

Login(p) == \E e \in Emails, nm \in PayloadNames : StartLogin(p, e, nm)

Auth(p) == \E op \in AuthOps, cred \in Credentials : StartAuth(p, op, cred)

Handler(p) == \E amt \in (IF req[p].op = "add" THEN Amounts ELSE {0}) :
                  AuthFindUser(p, amt)

\* The client takes the response off the wire.
Deliver ==
    /\ resp # NoResp
    /\ Quiet
    /\ UNCHANGED << dbOk, horizon, users, sessions, clock, nextTok, pc, req, userL, sessL,
                    tokL, conc, issued >>

Next ==
    \/ \E p \in Procs : Login(p)
    \/ \E p \in Procs : LoginInsertUser(p)
    \/ \E p \in Procs : LoginRefetch1(p)
    \/ \E p \in Procs : LoginUpdateName(p)
    \/ \E p \in Procs : LoginRefetch2(p)
    \/ \E p \in Procs : LoginFindSession(p)
    \/ \E p \in Procs : LoginInsertSession(p)
    \/ \E p \in Procs : Auth(p)
    \/ \E p \in Procs : Handler(p)
    \/ \E p \in Procs : AddWrite(p)
    \/ Deliver

Spec == Init /\ [][Next]_vars

\* A store the service has already worked on: login("a@x") followed by
\* add_coins(30), a state Spec reaches with its third write.
EmailA == << "a", "@", "x" >>

InitLedger ==
    /\ dbOk = TRUE
    /\ users = << [id |-> 1, email |-> EmailA, name |-> << "a" >>, coins |-> 30,
                   updated_at |-> 3] >>
    /\ sessions = << [token |-> TokenHex(1), user_id |-> StrOid(1),
                      user_email |-> EmailA] >>
    /\ clock = 3
    /\ horizon = 3 + MaxClock - 1
    /\ nextTok = 2
    /\ pc = [p \in Procs |-> "idle"]
    /\ req = [p \in Procs |-> NoReq]
    /\ userL = [p \in Procs |-> None]
    /\ sessL = [p \in Procs |-> None]
    /\ tokL = [p \in Procs |-> << >>]
    /\ resp = NoResp
    /\ conc = [p \in Procs |-> FALSE]
    /\ solo = FALSE
    /\ issued = { [email |-> EmailA, uid |-> 1, token |-> TokenHex(1), solo |-> TRUE] }

SpecLedger == InitLedger /\ [][Next]_vars

\* A store edited by hand (the service itself never deletes): user "c@x"
\* holds a session, the session of user "b@x" was removed, the user of the
\* second session was removed, and two sessions carry a user_id that is no
\* ObjectId at all.
AbsentOid == 200

NotHex == [i \in 1..OidHexLen |-> "z"]

EmailC == << "c", "@", "x" >>

InitOrphan ==
    /\ dbOk = TRUE
    /\ users = << [id |-> 1, email |-> EmailC, name |-> << "c" >>, coins |-> 30,
                   updated_at |-> 3],
                  [id |-> 2, email |-> << "b", "@", "x" >>, name |-> << "b" >>,
                   coins |-> 0, updated_at |-> 2] >>
    /\ sessions = << [token |-> TokenHex(1), user_id |-> StrOid(1),
                      user_email |-> EmailC],
                     [token |-> TokenHex(2), user_id |-> StrOid(AbsentOid),
                      user_email |-> << "d", "@", "x" >>],
                     [token |-> TokenHex(3), user_id |-> NotHex,
                      user_email |-> << "d", "@", "x" >>],
                     [token |-> TokenHex(4), user_id |-> << "1" >>,
                      user_email |-> << "d", "@", "x" >>] >>
    /\ clock = 3
    /\ horizon = 3 + MaxClock - 2
    /\ nextTok = 5
    /\ pc = [p \in Procs |-> "idle"]
    /\ req = [p \in Procs |-> NoReq]
    /\ userL = [p \in Procs |-> None]
    /\ sessL = [p \in Procs |-> None]
    /\ tokL = [p \in Procs |-> << >>]
    /\ resp = NoResp
    /\ conc = [p \in Procs |-> FALSE]
    /\ solo = FALSE
    /\ issued = {}

SpecOrphan == InitOrphan /\ [][Next]_vars

\* The service with a store that may fail while a session is inserted.
NextFault ==
    \/ Next
    \/ \E p \in Procs : LoginInsertSessionFails(p)

SpecFault == Init /\ [][NextFault]_vars

\* ================================================================ claims
ClampAtZero(x) == IF x > 0 THEN x ELSE 0

Abs(x) == IF x < 0 THEN -x ELSE x

\* The coins stored in collection coll for the user with id oid.
CoinsIn(coll, oid) == coll[CHOOSE i \in DOMAIN coll : coll[i].id = oid].coins

\* The users a session's user_id string names.
Owners(user_id) == { i \in DOMAIN users : StrOid(users[i].id) = user_id }

\* The step is the arrival of a request in slot p (implied by StartLogin and
\* StartAuth; it spares evaluating them on the other steps).
ArrivesIn(p) ==
    /\ pc[p] = "idle"
    /\ resp = NoResp
    /\ pc'[p] # "idle" \/ resp' # NoResp
    /\ \A q \in Procs \ {p} : pc'[q] = pc[q]

\* A login in slot p answers successfully in this step.
LoginAnswers(p) ==
    /\ req[p].op = "login"
    /\ pc[p] # "idle"
    /\ pc'[p] = "idle"
    /\ resp'.status = 200

\* C1: a login for email e returns the token every earlier login for e
\* returned (earlier: it had answered before this one arrived, and no other
\* login for e overlapped it), and it inserts no session.
C1_SameTokenOnRelogin ==
    [][ \A p \in Procs : LoginAnswers(p) =>
          \A i \in issued : (i.solo /\ i.email = req[p].email) =>
              /\ resp'.token = i.token
              /\ sessions' = sessions ]_vars

\* A login answers with the token of an earlier login for the same email,
\* after an add_coins call in between raised the balance.
C1_Witness ==
    /\ resp.op = "login"
    /\ resp.status = 200
    /\ resp.coins > 0
    /\ \E i \in issued : i.solo /\ i.email = resp.email /\ i.token = resp.token

\* C2: the session collection holds at most one record per user_id.
C2_OneSessionPerUser ==
    \A i, j \in DOMAIN sessions :
        sessions[i].user_id = sessions[j].user_id => i = j

\* C3: the user collection holds at most one record per email.
C3_OneUserPerEmail ==
    \A i, j \in DOMAIN users : users[i].email = users[j].email => i = j

\* C4: every stored balance is a non-negative integer, and a user is created
\* with balance 0.
C4_CoinsNonNegative ==
    /\ [](\A i \in DOMAIN users : users[i].coins \in Nat)
    /\ [][ \A p \in Procs : LoginInsertUser(p) =>
             /\ Len(users') = Len(users) + 1
             /\ users'[Len(users')].coins = 0 ]_vars

\* Two add_coins calls overlapped and the one answering clamped the balance
\* to 0.
C4_Witness ==
    /\ resp.op = "add"
    /\ resp.status = 200
    /\ resp.coins = 0
    /\ ~solo
    /\ \E i \in DOMAIN users : users[i].coins = 0

\* C5: an add_coins write that no other add_coins call overlapped stores and
\* returns max(0, b + d), b being the balance stored just before it.
C5_ProgressiveClamp ==
    [][ \A p \in Procs : (pc[p] = "c_write" /\ pc'[p] = "idle" /\ ~conc[p]) =>
          LET oid == Val(userL[p]).id
              want == ClampAtZero(CoinsIn(users, oid) + req[p].amt)
          IN /\ resp'.status = 200
             /\ resp'.coins = want
             /\ CoinsIn(users', oid) = want ]_vars

\* From 30, -50 gave 0 and then +200 gave 200: clamping the sum only at the
\* end would have given 180.
C5_Witness ==
    /\ resp.op = "add"
    /\ solo
    /\ resp.coins = 200
    /\ \E i \in DOMAIN users : users[i].coins = 200 /\ users[i].updated_at = 5

\* C6: an authenticated add_coins call with amount 0 answers with the stored
\* balance and writes nothing, in either of its two steps.
C6_ZeroAmountNoWrite ==
    [][ \A p \in Procs :
          /\ \/ store' = store
             \/ ~(ArrivesIn(p) /\ \E cred \in Credentials : StartAuth(p, "add", cred))
          /\ (AuthFindUser(p, 0) /\ req[p].op = "add" /\ Owners(Val(sessL[p])) # {}) =>
                /\ store' = store
                /\ clock' = clock
                /\ resp'.status = 200
                /\ \E i \in Owners(Val(sessL[p])) : resp'.coins = users[i].coins ]_vars

\* add_coins(0) answered 30 and the store is as it was.
C6_Witness ==
    /\ resp.op = "add"
    /\ resp.status = 200
    /\ resp.coins = 30
    /\ clock = 3
    /\ users[1].coins = 30 /\ users[1].updated_at = 3

\* C7: an authenticated add_coins call with |d| > 10000 answers 400 and
\* leaves the store alone; with |d| = 10000 it goes on to its write, which
\* answers 200.
C7_AmountBound ==
    [][ \A p \in Procs :
          /\ \A amt \in Amounts :
               (AuthFindUser(p, amt) /\ req[p].op = "add" /\ Owners(Val(sessL[p])) # {}) =>
                  /\ Abs(amt) > 10000 =>
                        /\ resp'.status = 400
                        /\ pc'[p] = "idle"
                        /\ store' = store
                  /\ Abs(amt) = 10000 => pc'[p] = "c_write" /\ req'[p].amt = amt
          /\ AddWrite(p) => resp'.status = 200 ]_vars

\* +10000 was applied to 30, and a too large amount was then refused.
C7_Witness ==
    /\ resp.op = "add"
    /\ resp.status = 400
    /\ \E i \in DOMAIN users : users[i].coins = 10030

\* The request arriving in slot p is refused at once and nothing is written.
Refused(p) ==
    /\ resp'.status = 401
    /\ pc'[p] = "idle"
    /\ store' = store

\* No credential, an empty one, or one whose token no session holds.
Unusable(cred) ==
    \/ ~IsSome(cred)
    \/ Val(cred) = << >>
    \/ dbOk /\ LET t == CredToken(Val(cred))
               IN \A i \in DOMAIN sessions : sessions[i].token # t

\* C8: get_current_user answers 401 without a credential, for a credential
\* whose token no session holds, and for a session whose user_id names no
\* user; none of these steps writes.  (First conjunct, read backwards: an
\* arrival that is not refused at once presented no unusable credential.)
C8_Unauthorized ==
    [][ \A p \in Procs :
          /\ (ArrivesIn(p) /\ ~Refused(p)) =>
                \A op \in AuthOps \cap { req'[p].op, resp'.op }, cred \in Credentials :
                    Unusable(cred) => ~StartAuth(p, op, cred)
          /\ \A amt \in Amounts :
               (AuthFindUser(p, amt) /\ Owners(Val(sessL[p])) = {}) => Refused(p) ]_vars

\* A token whose session outlived its user was refused.
C8_Witness ==
    /\ resp.status = 401
    /\ resp.detail = "User not found for token"
    /\ resp.op \in AuthOps

C10_TokenNeverChanges ==
    \A i, j \in issued :
        i.uid = j.uid =>
            /\ i.token = j.token
            /\ \E k \in DOMAIN sessions : sessions[k].user_id = StrOid(i.uid)

\* C11: add_coins writes max(0, b + d) for the balance b it read in
\* get_current_user, whatever is stored by then: while two calls for the same
\* user hold the same b, the write of one leaves the snapshot of the other as
\* it is, so the later write stores max(0, b + d) for its own d alone and the
\* earlier delta is lost.
C11_LostUpdate ==
    [][ \A p \in Procs : (pc[p] = "c_write" /\ pc'[p] = "idle") =>
          LET mine == Val(userL[p])
              got == ClampAtZero(mine.coins + req[p].amt)
          IN /\ CoinsIn(users', mine.id) = got
             /\ resp'.coins = got
             /\ \A q \in Procs \ {p} :
                   (pc[q] = "c_write" /\ Val(userL[q]).id = mine.id
                        /\ Val(userL[q]).coins = mine.coins) =>
                      /\ pc'[q] = "c_write"
                      /\ userL'[q] = userL[q]
                      /\ req'[q] = req[q] ]_vars

\* Two overlapping add_coins calls read 30; after both writes the balance is
\* 230 = 30 + 200, which no two successive non-zero amounts give from 30.
C11_Witness ==
    /\ resp.op = "add"
    /\ resp.status = 200
    /\ ~solo
    /\ resp.coins = 230
    /\ users[1].coins = 230
    /\ users[1].updated_at = 5

\* The positions of the sessions stored for a user_id.
SessionsOf(user_id) == { k \in DOMAIN sessions : sessions[k].user_id = user_id }

\* Two or more sessions are stored for the user of session k.
Doubled(k) == Cardinality(SessionsOf(sessions[k].user_id)) > 1

C13_NoRollback ==
    [][ \A p \in Procs :
          /\ LoginInsertSessionFails(p) =>
                /\ resp'.status = 500
                /\ pc'[p] = "idle"
                /\ users' = users
                /\ sessions' = sessions
                /\ \E i \in DOMAIN users' :
                      users'[i].email = req[p].email /\ users'[i].id = Val(userL[p]).id
                /\ ~conc[p] => SessionsOf(StrOid(Val(userL[p]).id)) = {}
          /\ (LoginInsertUser(p) /\ ~conc[p]) =>
                \A i \in DOMAIN users : users[i].email # req[p].email
          /\ (LoginAnswers(p) /\ solo') =>
                \E i \in DOMAIN users', k \in DOMAIN sessions' :
                    /\ users'[i].email = req[p].email
                    /\ \A j \in DOMAIN users' : users'[j].email = req[p].email => i <= j
                    /\ sessions'[k].user_id = StrOid(users'[i].id)
                    /\ sessions'[k].token = resp'.token ]_vars

\* The first login made the user and failed on its session (its token, the
\* first drawn, is stored nowhere); the next login answered with a session
\* for that same user.
C13_Witness ==
    /\ resp.op = "login"
    /\ resp.status = 200
    /\ solo
    /\ clock = 3
    /\ Len(users) = 1
    /\ users[1].updated_at = 1
    /\ Len(sessions) = 1
    /\ sessions[1].user_id = StrOid(users[1].id)
    /\ sessions[1].token = TokenHex(2)
    /\ resp.token = TokenHex(2)

\* C14: a login that has inserted a user makes no update: after the re-read
\* that follows its insert (134) the name test (136) sends it on to the
\* session, never to update_one (137).
C14_InsertOrUpdate ==
    [][ \A p \in Procs :
          (pc[p] = "l_refetch1" /\ pc'[p] # "l_refetch1") => pc'[p] = "l_sess" ]_vars

\* The step in which login in slot p, holding the user it fetched, decides
\* between update_one and the session (line 136).
DecidesName(p) ==
    /\ pc[p] \in { "idle", "l_refetch1" }
    /\ pc'[p] \in { "l_update", "l_sess" }
    /\ req'[p].op = "login"

\* C15 as stated: every supplied name, the empty string too, that differs
\* from the fetched user's name is written.
C15_VerbatimCompare ==
    [][ \A p \in Procs : DecidesName(p) =>
          LET nm == req'[p].name
          IN (IsSome(nm) /\ Val(nm) # Val(userL'[p]).name) => pc'[p] = "l_update" ]_vars

\* C15 (amended): a supplied non-empty name is compared verbatim with the
\* name of the user login fetched for the email, and written to that user
\* when it differs; an empty name is treated as not supplied and nothing is
\* written for it.
C15_NonEmptyVerbatim ==
    [][ \A p \in Procs :
          /\ DecidesName(p) =>
                LET nm == req'[p].name
                    u == Val(userL'[p])
                IN /\ u.email = req'[p].email
                   /\ \E i \in DOMAIN users : users[i] = u
                   /\ pc'[p] = "l_update" <=>
                         (IsSome(nm) /\ Val(nm) # << >> /\ Val(nm) # u.name)
          /\ (pc[p] = "l_update" /\ pc'[p] # "l_update") =>
                /\ Len(users') = Len(users)
                /\ \A i \in DOMAIN users :
                      /\ users[i].id = Val(userL[p]).id =>
                            users'[i].name = Val(req[p].name)
                      /\ users[i].id # Val(userL[p]).id => users'[i] = users[i] ]_vars

\* A login that supplied "A" has written it over the name "a" it fetched.
C15_Witness ==
    \E p \in Procs :
        /\ pc[p] = "l_refetch2"
        /\ req[p].name = Some(<< "A" >>)
        /\ Val(userL[p]).name = << "a" >>
        /\ \E i \in DOMAIN users :
              users[i].id = Val(userL[p]).id /\ users[i].name = << "A" >>

\* A credential with its surrounding whitespace and one leading "Bearer "
\* taken off.
PrefixStripped(c) ==
    LET s == Strip(c)
    IN Strip(IF IsPrefix(Bearer, s) THEN SubSeq(s, Len(Bearer) + 1, Len(s)) ELSE s)

\* C16: get_current_user finds a session for a credential exactly when the
\* credential, less surrounding whitespace and an optional leading "Bearer ",
\* is the token of a stored session, and then it goes on with the user_id of
\* that session.
C16_PrefixOnly ==
    [][ \A p \in Procs : (ArrivesIn(p) /\ dbOk) =>
          \A op \in AuthOps \cap { req'[p].op, resp'.op }, cred \in Credentials :
              (Truthy(cred) /\ StartAuth(p, op, cred)) =>
                 LET hit == { k \in DOMAIN sessions :
                                 sessions[k].token = PrefixStripped(Val(cred)) }
                 IN /\ pc'[p] = "a_user" <=> hit # {}
                    /\ pc'[p] = "a_user" =>
                          \E k \in hit : sessL'[p] = Some(sessions[k].user_id) ]_vars

\* C17: once a login for email e has answered with token t, a whoami that
\* presents t is never turned away, and it answers with t, with e, and with
\* the name and coins stored, when it reads them, for the user that login
\* resolved.
C17_LoginThenWhoami ==
    [][ \A p \in Procs :
          /\ (ArrivesIn(p) /\ issued # {} /\ resp'.status \in { 401, 500 }) =>
                \A i \in issued : \A c \in CredForms(i.token) :
                    ~StartAuth(p, "me", Some(c))
          /\ (pc[p] = "a_user" /\ req[p].op = "me" /\ pc'[p] = "idle") =>
                \A i \in issued : i.token = tokL[p] =>
                    /\ resp'.status = 200
                    /\ resp'.token = i.token
                    /\ resp'.email = i.email
                    /\ \E k \in DOMAIN users :
                          /\ users[k].id = i.uid
                          /\ resp'.name = users[k].name
                          /\ resp'.coins = users[k].coins ]_vars

\* whoami answered for an issued token with the balance an add_coins call
\* stored after the login.
C17_Witness ==
    /\ resp.op = "me"
    /\ resp.status = 200
    /\ resp.coins > 0
    /\ \E i \in issued : i.token = resp.token /\ i.email = resp.email
    /\ \E k \in DOMAIN users : users[k].coins = resp.coins /\ users[k].email = resp.email

\* C18: every stored session names a stored user: its user_id is the printed
\* id of a user whose email is the session's user_email.
C18_NoOrphanSession ==
    \A k \in DOMAIN sessions :
        \E i \in DOMAIN users :
            /\ StrOid(users[i].id) = sessions[k].user_id
            /\ users[i].email = sessions[k].user_email

\* The one session stored belongs to the second of two users.
C18_Witness ==
    /\ Len(users) = 2
    /\ Len(sessions) = 1
    /\ sessions[1].user_id = StrOid(users[2].id)
    /\ sessions[1].user_email = users[2].email
    /\ users[1].email # users[2].email

\* The step belongs to a login in slot p.
LoginStep(p) ==
    \/ req[p].op = "login" /\ pc'[p] # pc[p]
    \/ ArrivesIn(p) /\ "login" \in { req'[p].op, resp'.op }

\* C19: no step changes the id or email of a stored user; a step of login
\* changes at most name and updated_at of a stored user and never its coins;
\* the coins of a user change only in the write of an add_coins call for
\* that user with a non-zero amount within the bound.
C19_LoginFrame ==
    [][ /\ Len(users') >= Len(users)
        /\ \A i \in DOMAIN users :
              /\ users'[i].id = users[i].id
              /\ users'[i].email = users[i].email
              /\ users'[i].coins # users[i].coins =>
                    \E p \in Procs :
                        /\ req[p].op = "add"
                        /\ pc[p] = "c_write" /\ pc'[p] = "idle"
                        /\ Val(userL[p]).id = users[i].id
                        /\ req[p].amt # 0
                        /\ Abs(req[p].amt) <= 10000
        /\ \A p \in Procs : LoginStep(p) =>
              \A i \in DOMAIN users :
                  /\ users'[i].coins = users[i].coins
                  /\ [users'[i] EXCEPT !.name = users[i].name,
                                       !.updated_at = users[i].updated_at] = users[i] ]_vars

\* login("a@x", "A") renamed the user holding 30 coins: name and updated_at
\* are new, the coins are not.
C19_Witness ==
    /\ Len(users) = 1
    /\ users[1].name = << "A" >>
    /\ users[1].updated_at = 4
    /\ users[1].coins = 30
    /\ resp.op = "login"
    /\ resp.status = 200
    /\ resp.coins = 30

\* The step belongs to a whoami call in slot p.
WhoamiStep(p) ==
    \/ req[p].op = "me" /\ pc'[p] # pc[p]
    \/ ArrivesIn(p) /\ "me" \in { req'[p].op, resp'.op }

\* C20: no step of a whoami call, whether the call is answered or turned
\* away, changes the user collection or the session collection.
C20_WhoamiReadOnly ==
    [][ \A p \in Procs : WhoamiStep(p) => users' = users /\ sessions' = sessions ]_vars

\* whoami was turned away for a token no session holds while a user and its
\* session are stored.
C20_Witness ==
    /\ resp.op = "me"
    /\ resp.status = 401
    /\ resp.detail = "Invalid token"
    /\ Len(users) > 0
    /\ Len(sessions) > 0

====
